---- MODULE Spec2Model ----
(***************************************************************************)
(* The roster export of streamlit_app.py: one click of "Generate Excel     *)
(* Report" connects to the league, writes one sheet per team, the          *)
(* "Free Agents" sheet and the "All Players Status" sheet into an          *)
(* in-memory workbook, and hands the bytes to the download button.         *)
(*                                                                         *)
(* Python strings are sequences of one-character strings, so that          *)
(* re.sub, slicing, len, ", ".join and the string order are computed.      *)
(* The run is cut into the steps of the handler; pc is its position.       *)
(* The League call, the steps of the team loop and the steps of the        *)
(* free-agent block have a second outcome in which the call raises; the    *)
(* writer's close raises when the workbook has no sheet.                   *)
(***************************************************************************)
EXTENDS Integers, Sequences, FiniteSets, TLC

VARIABLES
  pc,                       \* position of the handler
  league,                   \* <<>> or <<the League object>>
  i,                        \* loop index of "for i, team in enumerate(...)"
  roster_data,              \* line 79
  all_players_master_list,  \* line 72
  sheets,                   \* the workbook of the ExcelWriter: [name, rows, widths]
  writer,                   \* "none" | "open" | "closed"
  free_agents,              \* <<>> or <<the list league.free_agents returned>>
  fa_data,                  \* line 104
  df_all,                   \* line 123 / 125
  warnings,                 \* st.warning calls
  errors,                   \* st.error calls
  progress,                 \* values given to the progress bar
  excel_data,               \* <<>> or <<bytes of the buffer>>
  file_name,                \* <<>> or <<the derived file name>>
  preview,                  \* <<>> or <<frame given to st.dataframe>>
  download,                 \* <<>> or <<[data, file_name] given to st.download_button>>
  trace,                    \* the calls made so far, in order
  failedAt,                 \* step whose call raised ("" when none)
  fn_in, fn_out, fn_out2, fn_pc   \* the helper expressions applied on their own

vars == <<pc, league, i, roster_data, all_players_master_list, sheets, writer,
          free_agents, fa_data, df_all, warnings, errors, progress, excel_data,
          file_name, preview, download, trace, failedAt,
          fn_in, fn_out, fn_out2, fn_pc>>

exportVars == <<pc, league, i, roster_data, all_players_master_list, sheets, writer,
                free_agents, fa_data, df_all, warnings, errors, progress, excel_data,
                file_name, preview, download, trace, failedAt>>

fnVars == <<fn_in, fn_out, fn_out2, fn_pc>>

(***************************************************************************)
(* Bounds of the model.                                                    *)
(***************************************************************************)
MaxTeams == 2
MaxNameLen == 33
MaxSlots == 3

(***************************************************************************)
(* Program constants.                                                      *)
(***************************************************************************)
MaxSheetName == 31
FASize == 500
WidthPad == 2

(***************************************************************************)
(* Strings.                                                                *)
(***************************************************************************)
S_FreeAgent == <<"F","r","e","e"," ","A","g","e","n","t">>
S_FreeAgents == <<"F","r","e","e"," ","A","g","e","n","t","s">>
S_AllPlayersStatus ==
  <<"A","l","l"," ","P","l","a","y","e","r","s"," ","S","t","a","t","u","s">>
S_Roster == <<"_","R","o","s","t","e","r","_">>
S_Xlsx == <<".","x","l","s","x">>
S_Year == <<"2","0","2","6">>
S_CommaSpace == <<",", " ">>

\* the DataFrame's columns, in the order of the dict of lines 82-88
Columns ==
  << <<"P","l","a","y","e","r"," ","N","a","m","e">>,
     <<"F","a","n","t","a","s","y"," ","T","e","a","m">>,
     <<"P","r","o"," ","T","e","a","m">>,
     <<"I","n","j","u","r","y"," ","S","t","a","t","u","s">>,
     <<"E","l","i","g","i","b","l","e"," ","P","o","s","i","t","i","o","n","s">> >>

\* ord(c) for the characters of the player names of the model
CodePoint(c) ==
  CASE c = " " -> 32
    [] c = "A" -> 65
    [] c = "Z" -> 90
    [] c = "d" -> 100
    [] c = "e" -> 101
    [] c = "l" -> 108

RECURSIVE StrLE(_, _)
\* a <= b for Python str: by code point, a proper prefix first
StrLE(a, b) ==
  IF a = <<>> THEN TRUE
  ELSE IF b = <<>> THEN FALSE
  ELSE IF CodePoint(Head(a)) < CodePoint(Head(b)) THEN TRUE
  ELSE IF CodePoint(Head(a)) > CodePoint(Head(b)) THEN FALSE
  ELSE StrLE(Tail(a), Tail(b))

Range(s) == {s[k] : k \in DOMAIN s}

MaxOf(S) == CHOOSE m \in S : \A x \in S : x <= m

(***************************************************************************)
(* Slot filter and record mapper (lines 71, 81-88, 106-113).               *)
(***************************************************************************)
excluded_slots ==
  { <<"U","T","I","L">>, <<"B","E">>, <<"I","L">>, <<"I","F">>, <<"L","F">>,
    <<"C","F">>, <<"R","F">>, <<"S","P">>, <<"R","P">> }

\* a slip: the two pitcher roles are left out of the exclusion set
clean_slots_keeps_pitchers(eligibleSlots) ==
  LET keep(slot) == slot \notin (excluded_slots \ {<<"S","P">>, <<"R","P">>})
  IN  SelectSeq(eligibleSlots, keep)

\* [slot for slot in player.eligibleSlots if slot not in excluded_slots], line 81
clean_slots(eligibleSlots) ==
  LET keep(slot) == slot \notin excluded_slots
  IN  SelectSeq(eligibleSlots, keep)

\* the same comprehension on the free-agent path, line 106
clean_slots_fa(eligibleSlots) ==
  LET keep(slot) == slot \notin excluded_slots
  IN  SelectSeq(eligibleSlots, keep)

RECURSIVE Join(_, _)
\* sep.join(parts)
Join(sep, parts) ==
  IF parts = <<>> THEN <<>>
  ELSE IF Len(parts) = 1 THEN parts[1]
  ELSE parts[1] \o sep \o Join(sep, Tail(parts))

\* player_info of lines 82-88
player_info(player, team_name) ==
  [ PlayerName        |-> player.name,
    FantasyTeam       |-> team_name,
    ProTeam           |-> player.proTeam,
    InjuryStatus      |-> player.injuryStatus,
    EligiblePositions |-> Join(S_CommaSpace, clean_slots(player.eligibleSlots)) ]

\* the dict of lines 107-113
fa_info(player) ==
  [ PlayerName        |-> player.name,
    FantasyTeam       |-> S_FreeAgent,
    ProTeam           |-> player.proTeam,
    InjuryStatus      |-> player.injuryStatus,
    EligiblePositions |-> Join(S_CommaSpace, clean_slots_fa(player.eligibleSlots)) ]

\* a slip: the roster's records carry the free-agent label
RosterRecords_fa_label(team) ==
  [k \in 1..Len(team.roster) |-> player_info(team.roster[k], S_FreeAgent)]

\* the records of a whole roster, in roster order (the loop of lines 80-90)
RosterRecords(team) ==
  [k \in 1..Len(team.roster) |-> player_info(team.roster[k], team.team_name)]

\* the records of the returned free agents (the loop of lines 105-113)
FARecords(players) == [k \in 1..Len(players) |-> fa_info(players[k])]

(***************************************************************************)
(* Sheet name sanitizer (line 93).                                         *)
(***************************************************************************)
\* the character class [\\/*?:\[\]]
IllegalChars == {"\\", "/", "*", "?", ":", "[", "]"}

RECURSIVE ReSub(_)
\* re.sub(r'[\\/*?:\[\]]', '', s)
ReSub(s) ==
  IF s = <<>> THEN <<>>
  ELSE (IF Head(s) \in IllegalChars THEN <<>> ELSE <<Head(s)>>) \o ReSub(Tail(s))

\* s[:31]
Slice31(s) == SubSeq(s, 1, IF Len(s) < MaxSheetName THEN Len(s) ELSE MaxSheetName)

\* a plausible slip: the name is cut before the characters are removed
clean_sheet_name_cut_first(team_name) == ReSub(Slice31(team_name))

clean_sheet_name(team_name) == Slice31(ReSub(team_name))

(***************************************************************************)
(* The workbook: to_excel and auto_adjust_column_width.                    *)
(***************************************************************************)
HasSheet(book, name) == \E k \in DOMAIN book : book[k].name = name

SheetIndex(book, name) == CHOOSE k \in DOMAIN book : book[k].name = name

SheetOf(book, name) == book[SheetIndex(book, name)]

\* cells written over a sheet that already has rows: the rows beyond the new
\* frame stay
Overlay(old, new) ==
  [k \in 1..(IF Len(old) > Len(new) THEN Len(old) ELSE Len(new)) |->
     IF k <= Len(new) THEN new[k] ELSE old[k]]

\* df.to_excel(writer, sheet_name=name, index=False): a sheet of that name is
\* reused, otherwise one is created after the others
to_excel(book, name, rows) ==
  IF HasSheet(book, name)
  THEN [book EXCEPT ![SheetIndex(book, name)].rows = Overlay(@, rows)]
  ELSE Append(book, [name |-> name, rows |-> rows, widths |-> <<>>])

\* the outcomes of a to_excel that raises: before the sheet exists, or after
\* some of the rows are in it
to_excel_raising(book, name, rows) ==
  {book} \cup {to_excel(book, name, SubSeq(rows, 1, k)) : k \in 0..Len(rows)}

Cell(row, col) ==
  CASE col = 1 -> row.PlayerName
    [] col = 2 -> row.FantasyTeam
    [] col = 3 -> row.ProTeam
    [] col = 4 -> row.InjuryStatus
    [] col = 5 -> row.EligiblePositions

\* max(df[column].astype(str).map(len).max(), len(column)) + 2, lines 57-58
column_width(rows, col) ==
  MaxOf({Len(Cell(rows[k], col)) : k \in DOMAIN rows} \cup {Len(Columns[col])})
  + WidthPad

\* auto_adjust_column_width, lines 53-58: a frame without records has no columns
auto_adjust_column_width(book, rows, name) ==
  IF rows = <<>> THEN book
  ELSE [book EXCEPT ![SheetIndex(book, name)].widths =
          [col \in 1..Len(Columns) |-> column_width(rows, col)]]

(***************************************************************************)
(* The provider's data.                                                    *)
(***************************************************************************)
Players ==
  { [ name |-> <<"A","l">>, proTeam |-> <<"N","Y","Y">>,
      injuryStatus |-> <<"A","C","T","I","V","E">>,
      eligibleSlots |-> << <<"1","B">>, <<"U","T","I","L">> >> ],
    [ name |-> <<"A","l">>, proTeam |-> <<"B","O","S">>,
      injuryStatus |-> <<"O","U","T">>,
      eligibleSlots |-> << <<"S","P">>, <<"R","P">> >> ],
    [ name |-> <<"Z","e","d">>, proTeam |-> <<"L","A","D">>,
      injuryStatus |-> <<"A","C","T","I","V","E">>,
      eligibleSlots |-> << <<"S","S">>, <<"B","E">>, <<"O","F">> >> ] }

TeamNames == { <<"A">>, <<"A","/">>, <<"B">> }

LeagueName == <<"M","y"," ","L","g">>

\* the orderings of the players of S: a player is listed once
RosterOrders(S) ==
  {r \in [1..Cardinality(S) -> S] : \A a, b \in 1..Cardinality(S) : r[a] = r[b] => a = b}

\* the rosters that can be made of the players of S
Rosters(S) == UNION {RosterOrders(T) : T \in SUBSET S}

RECURSIVE TeamSeqs(_, _)
\* n teams over the players of S, no player on two rosters
TeamSeqs(n, S) ==
  IF n = 0 THEN {<<>>}
  ELSE UNION { { <<[team_name |-> nm, roster |-> r]>> \o rest :
                   rest \in TeamSeqs(n - 1, S \ Range(r)) } :
               nm \in TeamNames, r \in Rosters(S) }

Leagues ==
  UNION { {[name |-> LeagueName, teams |-> ts] : ts \in TeamSeqs(n, Players)} :
          n \in 0..MaxTeams }

Teams == league[1].teams

Rostered == UNION {Range(Teams[t].roster) : t \in DOMAIN Teams}

Event(ev, arg) == [ev |-> ev, arg |-> arg]

Some(x) == <<x>>


None == <<>>

\* league.settings.name.replace(' ', '_')
ReplaceSpaces(s) == [k \in 1..Len(s) |-> IF s[k] = " " THEN "_" ELSE s[k]]

\* f"{league.settings.name.replace(' ', '_')}_Roster_{year}.xlsx", line 131
FileName(name) == ReplaceSpaces(name) \o S_Roster \o S_Year \o S_Xlsx

\* a slip: the value reported before the index is advanced
progress_value_off_by_one(idx, n) == [num |-> idx, den |-> n]

\* (i + 1) / len(league.teams), line 98
progress_value(idx, n) == [num |-> idx + 1, den |-> n]

Permutations_(n) ==
  {p \in [1..n -> 1..n] : \A a, b \in 1..n : p[a] = p[b] => a = b}

\* df_all.sort_values(by="Player Name"), line 125: kind defaults to "quicksort",
\* which pandas documents as not stable (numpy's quicksort keeps equal keys in
\* place only while a partition has at most 16 rows), so every ordering of the
\* rows that is non-decreasing in Player Name is an outcome; the frames here
\* are short, the order of equal names is left open as for a long one
sort_values(rows) ==
  { [k \in 1..Len(rows) |-> rows[p[k]]] :
      p \in { q \in Permutations_(Len(rows)) :
                \A k \in 1..(Len(rows) - 1) :
                  StrLE(rows[q[k]].PlayerName, rows[q[k + 1]].PlayerName) } }

\* a slip: the roster's records are not added to the master list
master_after_roster_dropped(master, records) == master

\* all_players_master_list.append(player_info) for each player, line 90
master_after_roster(master, records) == master \o records

ErrorReport == "An error occurred during the process."
FAWarning == "Could not fetch Free Agents"

(***************************************************************************)
(* The handler of the button (lines 61-148).                               *)
(***************************************************************************)
InitExport ==
  /\ pc = "start"
  /\ league = None
  /\ i = 0
  /\ roster_data = <<>>
  /\ all_players_master_list = <<>>
  /\ sheets = <<>>
  /\ writer = "none"
  /\ free_agents = None
  /\ fa_data = <<>>
  /\ df_all = <<>>
  /\ warnings = <<>>
  /\ errors = <<>>
  /\ progress = <<>>
  /\ excel_data = None
  /\ file_name = None
  /\ preview = None
  /\ download = None
  /\ trace = <<>>
  /\ failedAt = ""

Init ==
  /\ InitExport
  /\ fn_in = <<>>
  /\ fn_out = <<>>
  /\ fn_out2 = <<>>
  /\ fn_pc = "off"

\* a slip: the handler sits inside the team loop, so a failing team is reported
\* and the loop goes on with the next one
Fatal_isolated(at) ==
  /\ pc' = IF at \in {"team_map", "team_write", "team_format"}
           THEN "team_progress" ELSE "failed"
  /\ failedAt' = at
  /\ errors' = Append(errors, ErrorReport)
  /\ writer' = IF at = "close" THEN "closed" ELSE writer
  /\ trace' = Append(trace, Event("error", 0))

\* except Exception (lines 146-148): one report, whatever was raised. An
\* exception that leaves the with block of line 74 makes the writer close on
\* the way out; the buffer it saved into is never read
Fatal(at) ==
  /\ pc' = "failed"
  /\ failedAt' = at
  /\ errors' = Append(errors, ErrorReport)
  /\ writer' = IF writer = "open" THEN "closed" ELSE writer
  /\ trace' = trace \o (IF writer = "open" THEN <<Event("close", 0)>> ELSE <<>>)
                    \o <<Event("error", 0)>>

\* League(league_id=..., year=..., espn_s2=..., swid=...), lines 63-72
Connect ==
  /\ pc = "start"
  /\ \/ /\ \E lg \in Leagues : league' = Some(lg)
        /\ pc' = "open"
        /\ trace' = Append(trace, Event("connected", 0))
        /\ UNCHANGED <<errors, writer, failedAt>>
     \/ /\ Fatal("connect")
        /\ UNCHANGED league
  /\ UNCHANGED <<i, roster_data, all_players_master_list, sheets, free_agents,
                 fa_data, df_all, warnings, progress, excel_data, file_name,
                 preview, download>>
  /\ UNCHANGED fnVars

\* with pd.ExcelWriter(output, engine='openpyxl') as writer, st.progress(0),
\* lines 74-78
OpenWriter ==
  /\ pc = "open"
  /\ writer' = "open"
  /\ progress' = <<[num |-> 0, den |-> 1]>>
  /\ i' = 0
  /\ pc' = IF Len(Teams) = 0 THEN "fa_fetch" ELSE "team_map"
  /\ trace' = trace \o <<Event("open", 0), Event("progress", 0)>>
  /\ UNCHANGED <<league, roster_data, all_players_master_list, sheets, free_agents,
                 fa_data, df_all, warnings, errors, excel_data, file_name,
                 preview, download, failedAt>>
  /\ UNCHANGED fnVars

\* lines 79-90 for team i: the records are appended to both lists one by one,
\* so a player whose mapping raises leaves the earlier ones in them
TeamMap ==
  /\ pc = "team_map"
  /\ LET team == Teams[i + 1]
         recs == RosterRecords(team)
     IN  \/ /\ roster_data' = recs
            /\ all_players_master_list' = master_after_roster(all_players_master_list, recs)
            /\ pc' = "team_write"
            /\ trace' = Append(trace, Event("map", i + 1))
            /\ UNCHANGED <<errors, writer, failedAt>>
         \/ /\ \E k \in 1..Len(recs) :
                 /\ roster_data' = SubSeq(recs, 1, k - 1)
                 /\ all_players_master_list' =
                      master_after_roster(all_players_master_list, SubSeq(recs, 1, k - 1))
            /\ Fatal("team_map")
  /\ UNCHANGED <<league, i, sheets, free_agents, fa_data, df_all, warnings,
                 progress, excel_data, file_name, preview, download>>
  /\ UNCHANGED fnVars

\* lines 92-94: df_team.to_excel(writer, sheet_name=clean_sheet_name, index=False)
TeamWrite ==
  /\ pc = "team_write"
  /\ LET name == clean_sheet_name(Teams[i + 1].team_name)
     IN  \/ /\ sheets' = to_excel(sheets, name, roster_data)
            /\ pc' = "team_format"
            /\ trace' = Append(trace, Event("write", i + 1))
            /\ UNCHANGED <<errors, writer, failedAt>>
         \/ /\ \E book \in to_excel_raising(sheets, name, roster_data) : sheets' = book
            /\ Fatal("team_write")
  /\ UNCHANGED <<league, i, roster_data, all_players_master_list, free_agents,
                 fa_data, df_all, warnings, progress, excel_data, file_name,
                 preview, download>>
  /\ UNCHANGED fnVars

\* line 95: auto_adjust_column_width(writer, df_team, clean_sheet_name)
TeamFormat ==
  /\ pc = "team_format"
  /\ LET name == clean_sheet_name(Teams[i + 1].team_name)
     IN  \/ /\ sheets' = auto_adjust_column_width(sheets, roster_data, name)
            /\ pc' = "team_progress"
            /\ trace' = Append(trace, Event("format", i + 1))
            /\ UNCHANGED <<errors, writer, failedAt>>
         \/ /\ Fatal("team_format")
            /\ UNCHANGED sheets
  /\ UNCHANGED <<league, i, roster_data, all_players_master_list, free_agents,
                 fa_data, df_all, warnings, progress, excel_data, file_name,
                 preview, download>>
  /\ UNCHANGED fnVars

\* line 98, and the loop's advance to the next team
TeamProgress ==
  /\ pc = "team_progress"
  /\ progress' = Append(progress, progress_value(i, Len(Teams)))
  /\ i' = i + 1
  /\ pc' = IF i + 1 < Len(Teams) THEN "team_map" ELSE "fa_fetch"
  /\ trace' = Append(trace, Event("progress", i + 1))
  /\ UNCHANGED <<league, roster_data, all_players_master_list, sheets, writer,
                 free_agents, fa_data, df_all, warnings, errors, excel_data,
                 file_name, preview, download, failedAt>>
  /\ UNCHANGED fnVars

\* except Exception as e: st.warning(...), lines 119-120
Warn(pre, stage) ==
  /\ warnings' = Append(warnings, FAWarning)
  /\ pc' = "master"
  /\ trace' = trace \o pre \o <<Event("fa_raise", stage), Event("warning", 0)>>

\* line 103: free_agents = league.free_agents(size=500); line 104
FaFetch ==
  /\ pc = "fa_fetch"
  /\ \/ /\ \E fa \in Rosters(Players \ Rostered) :
             /\ Len(fa) <= FASize
             /\ free_agents' = Some(fa)
        /\ fa_data' = <<>>
        /\ pc' = "fa_map"
        /\ trace' = trace \o <<Event("fa_start", 0), Event("fa_fetch", 0)>>
        /\ UNCHANGED warnings
     \/ /\ Warn(<<Event("fa_start", 0)>>, 1)
        /\ UNCHANGED <<free_agents, fa_data>>
  /\ UNCHANGED <<league, i, roster_data, all_players_master_list, sheets, writer,
                 df_all, errors, progress, excel_data, file_name, preview,
                 download, failedAt>>
  /\ UNCHANGED fnVars

\* lines 105-113
FaMap ==
  /\ pc = "fa_map"
  /\ LET recs == FARecords(free_agents[1])
     IN  \/ /\ fa_data' = recs
            /\ pc' = "fa_write"
            /\ trace' = Append(trace, Event("fa_map", 0))
            /\ UNCHANGED warnings
         \/ /\ \E k \in 1..Len(recs) : fa_data' = SubSeq(recs, 1, k - 1)
            /\ Warn(<<>>, 2)
  /\ UNCHANGED <<league, i, roster_data, all_players_master_list, sheets, writer,
                 free_agents, df_all, errors, progress, excel_data, file_name,
                 preview, download, failedAt>>
  /\ UNCHANGED fnVars

\* lines 115-116: df_fa.to_excel(writer, sheet_name="Free Agents", index=False)
FaWrite ==
  /\ pc = "fa_write"
  /\ \/ /\ sheets' = to_excel(sheets, S_FreeAgents, fa_data)
        /\ pc' = "fa_format"
        /\ trace' = Append(trace, Event("fa_write", 0))
        /\ UNCHANGED warnings
     \/ /\ \E book \in to_excel_raising(sheets, S_FreeAgents, fa_data) : sheets' = book
        /\ Warn(<<>>, 3)
  /\ UNCHANGED <<league, i, roster_data, all_players_master_list, writer,
                 free_agents, fa_data, df_all, errors, progress, excel_data,
                 file_name, preview, download, failedAt>>
  /\ UNCHANGED fnVars

\* lines 117-118: auto_adjust_column_width(writer, df_fa, "Free Agents") and
\* all_players_master_list.extend(fa_data)
FaFormat ==
  /\ pc = "fa_format"
  /\ \/ /\ sheets' = auto_adjust_column_width(sheets, fa_data, S_FreeAgents)
        /\ all_players_master_list' = all_players_master_list \o fa_data
        /\ pc' = "master"
        /\ trace' = Append(trace, Event("fa_format", 0))
        /\ UNCHANGED warnings
     \/ /\ Warn(<<>>, 4)
        /\ UNCHANGED <<sheets, all_players_master_list>>
  /\ UNCHANGED <<league, i, roster_data, writer, free_agents, fa_data, df_all,
                 errors, progress, excel_data, file_name, preview, download,
                 failedAt>>
  /\ UNCHANGED fnVars

\* lines 123-127
Master ==
  /\ pc = "master"
  /\ IF all_players_master_list = <<>>
     THEN /\ df_all' = <<>>
          /\ UNCHANGED sheets
     ELSE \E sorted \in sort_values(all_players_master_list) :
            /\ df_all' = sorted
            /\ sheets' = auto_adjust_column_width(
                           to_excel(sheets, S_AllPlayersStatus, sorted),
                           sorted, S_AllPlayersStatus)
  /\ pc' = "close"
  /\ trace' = Append(trace, Event("master", 0))
  /\ UNCHANGED <<league, i, roster_data, all_players_master_list, writer,
                 free_agents, fa_data, warnings, errors, progress, excel_data,
                 file_name, preview, download, failedAt>>
  /\ UNCHANGED fnVars

\* the end of the with block of line 74: the writer saves the workbook into the
\* buffer; openpyxl refuses to save a workbook that has no sheet
CloseWriter ==
  /\ pc = "close"
  /\ \/ /\ sheets # <<>>
        /\ writer' = "closed"
        /\ pc' = "deliver"
        /\ trace' = Append(trace, Event("close", 0))
        /\ UNCHANGED <<errors, failedAt>>
     \/ /\ sheets = <<>>
        /\ Fatal("close")
  /\ UNCHANGED <<league, i, roster_data, all_players_master_list, sheets,
                 free_agents, fa_data, df_all, warnings, progress, excel_data,
                 file_name, preview, download>>
  /\ UNCHANGED fnVars

\* a slip: the bytes are taken inside the with block, before the writer is closed
DeliverBeforeClose ==
  /\ pc = "close"
  /\ excel_data' = Some(sheets)
  /\ file_name' = Some(FileName(league[1].name))
  /\ preview' = Some(df_all)
  /\ download' = Some([data |-> sheets, file_name |-> FileName(league[1].name)])
  /\ pc' = "done"
  /\ trace' = trace \o <<Event("read", 0), Event("preview", 0), Event("download", 0)>>
  /\ UNCHANGED <<league, i, roster_data, all_players_master_list, sheets, writer,
                 free_agents, fa_data, df_all, warnings, errors, progress, failedAt>>
  /\ UNCHANGED fnVars

\* lines 130-144: output.getvalue(), the file name, st.dataframe(df_all),
\* st.download_button(...)
Deliver ==
  /\ pc = "deliver"
  /\ excel_data' = Some(sheets)
  /\ file_name' = Some(FileName(league[1].name))
  /\ preview' = Some(df_all)
  /\ download' = Some([data |-> sheets, file_name |-> FileName(league[1].name)])
  /\ pc' = "done"
  /\ trace' = trace \o <<Event("read", 0), Event("preview", 0), Event("download", 0)>>
  /\ UNCHANGED <<league, i, roster_data, all_players_master_list, sheets, writer,
                 free_agents, fa_data, df_all, warnings, errors, progress, failedAt>>
  /\ UNCHANGED fnVars

Next ==
  \/ Connect
  \/ OpenWriter
  \/ TeamMap
  \/ TeamWrite
  \/ TeamFormat
  \/ TeamProgress
  \/ FaFetch
  \/ FaMap
  \/ FaWrite
  \/ FaFormat
  \/ Master
  \/ CloseWriter
  \/ Deliver

Spec == Init /\ [][Next]_vars


(***************************************************************************)
(* The sanitizer on its own: clean_sheet_name applied to one team name.    *)
(***************************************************************************)
NameChars == IllegalChars \cup {"a", "b"}

\* n characters "a", with c at position p and d after it
NameWith(n, p, c, d) ==
  [k \in 1..n |-> IF k = p THEN c ELSE IF k = p + 1 THEN d ELSE "a"]

NameInputs ==
  { NameWith(n, p, c, d) :
      n \in 0..MaxNameLen, p \in 0..MaxNameLen, c \in NameChars, d \in {"a", "/"} }
  \cup { [k \in 1..n |-> c] : n \in 0..MaxNameLen, c \in NameChars }

InitSan ==
  /\ InitExport
  /\ fn_in \in NameInputs
  /\ fn_out = <<>>
  /\ fn_out2 = <<>>
  /\ fn_pc = "ready"

\* line 93 for a team whose display name is fn_in
Sanitize ==
  /\ fn_pc = "ready"
  /\ fn_out' = clean_sheet_name(fn_in)
  /\ fn_pc' = "done"
  /\ UNCHANGED <<fn_in, fn_out2>>
  /\ UNCHANGED exportVars

NextSan == Sanitize

SpecSan == InitSan /\ [][NextSan]_vars

(***************************************************************************)
(* The slot filter on its own: the record of a rostered player and of a    *)
(* free agent whose eligibleSlots are fn_in.                               *)
(***************************************************************************)
SlotTags == excluded_slots \cup { <<"1","B">>, <<"S","S">>, <<"O","F">> }

SlotInputs == UNION { [1..n -> SlotTags] : n \in 0..MaxSlots }

PlayerWith(slots) ==
  [ name |-> <<"A","l">>, proTeam |-> <<"N","Y","Y">>,
    injuryStatus |-> <<"A","C","T","I","V","E">>, eligibleSlots |-> slots ]

InitSlots ==
  /\ InitExport
  /\ fn_in \in SlotInputs
  /\ fn_out = <<>>
  /\ fn_out2 = <<>>
  /\ fn_pc = "ready"

\* lines 81-88 for a rostered player
FilterRoster ==
  /\ fn_pc \in {"ready", "fa"}
  /\ fn_out' = Some([ slots |-> clean_slots(fn_in),
                      text  |-> player_info(PlayerWith(fn_in), <<"A">>).EligiblePositions ])
  /\ fn_pc' = IF fn_pc = "ready" THEN "roster" ELSE "both"
  /\ UNCHANGED <<fn_in, fn_out2>>
  /\ UNCHANGED exportVars

\* lines 106-113 for a free agent
FilterFA ==
  /\ fn_pc \in {"ready", "roster"}
  /\ fn_out2' = Some([ slots |-> clean_slots_fa(fn_in),
                       text  |-> fa_info(PlayerWith(fn_in)).EligiblePositions ])
  /\ fn_pc' = IF fn_pc = "ready" THEN "fa" ELSE "both"
  /\ UNCHANGED <<fn_in, fn_out>>
  /\ UNCHANGED exportVars

NextSlots == FilterRoster \/ FilterFA

SpecSlots == InitSlots /\ [][NextSlots]_vars


(***************************************************************************)
(* Vocabulary of the properties.                                           *)
(***************************************************************************)
Idx(ev) == {k \in DOMAIN trace : trace[k].ev = ev}

Happened(ev) == Idx(ev) # {}

NTeams == IF league = None THEN 0 ELSE Len(Teams)

FaFailed == Happened("fa_raise")

AfterMasterStep == Happened("master")

Delivered == excel_data # None /\ file_name # None /\ download # None

RECURSIVE SumLen(_)
SumLen(ss) == IF ss = <<>> THEN 0 ELSE Len(Head(ss)) + SumLen(Tail(ss))

RosterSizes == SumLen([t \in 1..NTeams |-> Teams[t].roster])

Fetched == IF FaFailed \/ free_agents = None THEN 0 ELSE Len(free_agents[1])

\* the number of records of the master list that describe player p under label
Copies(p, label) ==
  Cardinality({k \in DOMAIN all_players_master_list :
                 /\ all_players_master_list[k].PlayerName = p.name
                 /\ all_players_master_list[k].ProTeam = p.proTeam
                 /\ all_players_master_list[k].InjuryStatus = p.injuryStatus
                 /\ all_players_master_list[k].FantasyTeam = label})

\* rows are the records of team t, in roster order
RowsOfTeam(rows, t) ==
  /\ Len(rows) = Len(Teams[t].roster)
  /\ \A k \in DOMAIN rows :
       /\ rows[k].PlayerName = Teams[t].roster[k].name
       /\ rows[k].ProTeam = Teams[t].roster[k].proTeam
       /\ rows[k].InjuryStatus = Teams[t].roster[k].injuryStatus
       /\ rows[k].FantasyTeam = Teams[t].team_name

StrippedName(t) == SelectSeq(Teams[t].team_name, LAMBDA c : c \notin IllegalChars)

EveryTeamHasItsSheet ==
  /\ \A t \in 1..NTeams :
       /\ HasSheet(sheets, StrippedName(t))
       /\ RowsOfTeam(SheetOf(sheets, StrippedName(t)).rows, t)
  /\ Len(sheets) = NTeams

SheetNamesDistinct ==
  \A t, u \in 1..NTeams : StrippedName(t) = StrippedName(u) => t = u

(***************************************************************************)
(* C1: once the roster step is over, a free-agent step that fails (the     *)
(* provider call, the mapping, the write or the formatting raises) leaves  *)
(* no sheet "Free Agents", leaves the master list without any free-agent   *)
(* record, surfaces exactly one warning, and the export goes on: it is     *)
(* never reported as failed, and it delivers the artifact and the download.*)
(***************************************************************************)
C1_FreeAgentFailureIsolated ==
  FaFailed =>
    /\ ~HasSheet(sheets, S_FreeAgents)
    /\ Len(all_players_master_list) = RosterSizes
    /\ \A k \in DOMAIN all_players_master_list :
         all_players_master_list[k].FantasyTeam # S_FreeAgent
    /\ Len(warnings) = 1
    /\ pc \in {"master", "close", "deliver", "done"}
    /\ pc \in {"close", "deliver", "done"} => AfterMasterStep
    /\ pc = "done" => Delivered

(***************************************************************************)
(* C2: when League(...) raises or anything raises while a team is          *)
(* processed, the run is over: nothing more is enabled, the later teams,   *)
(* the free-agent step and the master step have not run, no bytes, file    *)
(* name, preview or download were handed over, and exactly one error       *)
(* report is shown.                                                        *)
(***************************************************************************)
C2_FatalFailureReturnsNothing ==
  failedAt \in {"connect", "team_map", "team_write", "team_format"} =>
    /\ pc = "failed"
    /\ ~ENABLED Next
    /\ \A k \in DOMAIN trace :
         /\ trace[k].ev \in {"map", "write", "format"} => trace[k].arg <= i + 1
         /\ trace[k].ev = "progress" => trace[k].arg <= i
    /\ ~Happened("fa_start") /\ ~Happened("master")
    /\ free_agents = None /\ fa_data = <<>> /\ df_all = <<>> /\ warnings = <<>>
    /\ excel_data = None /\ file_name = None /\ preview = None /\ download = None
    /\ ~Happened("read") /\ ~Happened("preview") /\ ~Happened("download")
    /\ Len(errors) = 1

C2_Witness ==
  /\ pc = "failed"
  /\ failedAt = "team_format"
  /\ NTeams = 2
  /\ i = 0
  /\ sheets # <<>>

(***************************************************************************)
(* C3: from the master step on, the master list holds one record for every *)
(* rostered player and one for every free agent fetched (none when the     *)
(* free-agent step failed), and nothing else: its length is the sum of the *)
(* roster sizes plus the number fetched.                                   *)
(***************************************************************************)
C3_MasterListSize ==
  pc \in {"master", "close", "deliver", "done"} =>
    /\ Len(all_players_master_list) = RosterSizes + Fetched
    /\ \A t \in 1..NTeams : \A p \in Range(Teams[t].roster) :
         Copies(p, Teams[t].team_name) = 1
    /\ Fetched > 0 => \A p \in Range(free_agents[1]) : Copies(p, S_FreeAgent) = 1

C3_Witness ==
  /\ pc = "master"
  /\ NTeams = 2
  /\ \A t \in 1..NTeams : Teams[t].roster # <<>>
  /\ Fetched = 1
  /\ Len(all_players_master_list) = 3

(***************************************************************************)
(* C4: for a non-empty master list the rows of "All Players Status" are    *)
(* the master list stably sorted by Player Name: a rearrangement of its    *)
(* records, non-decreasing in Player Name, records of equal name in the    *)
(* order they have in the master list.                                     *)
(***************************************************************************)
C4_MasterSheetStableSort ==
  (AfterMasterStep /\ all_players_master_list # <<>>) =>
    /\ HasSheet(sheets, S_AllPlayersStatus)
    /\ LET rows == SheetOf(sheets, S_AllPlayersStatus).rows
           n == Len(all_players_master_list)
       IN  /\ Len(rows) = n
           /\ \E p \in Permutations_(n) :
                /\ \A k \in 1..n : rows[k] = all_players_master_list[p[k]]
                /\ \A k \in 1..(n - 1) :
                     /\ StrLE(rows[k].PlayerName, rows[k + 1].PlayerName)
                     /\ rows[k].PlayerName = rows[k + 1].PlayerName => p[k] < p[k + 1]

C7_EmptyMasterListIsNoError ==
  (AfterMasterStep /\ all_players_master_list = <<>>) =>
    /\ pc # "failed"
    /\ errors = <<>>
    /\ ~HasSheet(sheets, S_AllPlayersStatus)
    /\ pc = "done" => Delivered /\ preview = None /\ ~Happened("preview")

(***************************************************************************)
(* C10: the progress bar gets 0 first and then (i+1)/n after team i is     *)
(* mapped, written and formatted: every value is in [0,1], the per-team    *)
(* values increase strictly, the last one is 1 exactly when all n teams    *)
(* are through, no value precedes its team's sheet, and with no team no    *)
(* per-team value is reported and nothing is divided by 0.                 *)
(***************************************************************************)
C10_Progress ==
  LET n == NTeams
      done == Len(progress) - 1
  IN  progress # <<>> =>
        /\ progress[1] = [num |-> 0, den |-> 1]
        /\ \A k \in 1..done : progress[k + 1] = [num |-> k, den |-> n]
        /\ \A k \in DOMAIN progress :
             /\ progress[k].den > 0
             /\ 0 <= progress[k].num /\ progress[k].num <= progress[k].den
        /\ \A k \in 1..(Len(progress) - 1) :
             progress[k].num * progress[k + 1].den < progress[k + 1].num * progress[k].den
        /\ done <= n
        /\ (done >= 1 /\ progress[done + 1].num = progress[done + 1].den) <=> (n > 0 /\ done = n)
        /\ \A t \in 1..done :
             \E f \in Idx("format") :
               /\ trace[f] = Event("format", t)
               /\ trace[f - 1] = Event("write", t)
               /\ \E q \in Idx("progress") : trace[q].arg = t /\ f < q
        /\ Cardinality(Idx("progress")) = Len(progress)
        /\ pc \in {"fa_fetch", "fa_map", "fa_write", "fa_format", "master",
                   "close", "deliver", "done"} => done = n
        /\ n = 0 => done = 0

C10_Witness ==
  /\ pc = "fa_fetch"
  /\ NTeams = 2
  /\ progress = <<[num |-> 0, den |-> 1], [num |-> 1, den |-> 2], [num |-> 2, den |-> 2]>>

(***************************************************************************)
(* C8: the sheet name is the team name without the characters              *)
(* \ / * ? : [ ], cut to its first 31 characters: the k-th character of    *)
(* the sheet name is the k-th character of the team name that is none of   *)
(* the seven, for k up to 31 or the number of such characters.             *)
(***************************************************************************)
C8_SheetNameSanitizer ==
  fn_pc = "done" =>
    LET seven == {"\\", "/", "*", "?", ":", "[", "]"}
        legal == {j \in DOMAIN fn_in : fn_in[j] \notin seven}
        kth(k) == CHOOSE j \in legal : Cardinality({m \in legal : m <= j}) = k
    IN  /\ Len(fn_out) <= 31
        /\ Len(fn_out) = (IF Cardinality(legal) < 31 THEN Cardinality(legal) ELSE 31)
        /\ \A k \in DOMAIN fn_out : fn_out[k] \notin seven /\ fn_out[k] = fn_in[kth(k)]

C8_Witness ==
  /\ fn_pc = "done"
  /\ Len(fn_in) = 33
  /\ fn_in[5] = "["
  /\ fn_in[6] = "/"
  /\ Len(fn_out) = 31
  /\ fn_out[31] = "a"

(***************************************************************************)
(* C9: the tags kept for Eligible Positions are the input tags that are    *)
(* none of UTIL, BE, IL, IF, LF, CF, RF, SP, RP, in input order, all of    *)
(* them and nothing else; the text is those tags joined by ", "; the       *)
(* rostered player and the free agent get the same.                        *)
(***************************************************************************)
C9_SlotFilter ==
  LET nine == { <<"U","T","I","L">>, <<"B","E">>, <<"I","L">>, <<"I","F">>,
                <<"L","F">>, <<"C","F">>, <<"R","F">>, <<"S","P">>, <<"R","P">> }
      kept == {j \in DOMAIN fn_in : fn_in[j] \notin nine}
      kth(k) == CHOOSE j \in kept : Cardinality({m \in kept : m <= j}) = k
      IsFilter(out) ==
        /\ Len(out.slots) = Cardinality(kept)
        /\ \A k \in DOMAIN out.slots :
             out.slots[k] \notin nine /\ out.slots[k] = fn_in[kth(k)]
        /\ fn_in = <<>> => out.slots = <<>> /\ out.text = <<>>
        /\ out.text = Join(<<",", " ">>, [k \in 1..Cardinality(kept) |-> fn_in[kth(k)]])
  IN  /\ fn_pc \in {"roster", "both"} => IsFilter(fn_out[1])
      /\ fn_pc \in {"fa", "both"} => IsFilter(fn_out2[1])
      /\ fn_pc = "both" => fn_out = fn_out2

C9_Witness ==
  /\ fn_pc = "both"
  /\ fn_in = << <<"1","B">>, <<"S","P">>, <<"S","S">> >>
  /\ fn_out[1].slots = << <<"1","B">>, <<"S","S">> >>
  /\ fn_out2[1].text = <<"1","B",","," ","S","S">>

====
